---- MODULE Spec2Model ----
\* Permission-scoped hierarchical key-value store (Store, Ability, AdminStore).
\*
\* Representation
\*   - The store tree is a heap: a sequence of Store objects, a reference being
\*     an index into it.  Object identity matters: the credential store is one
\*     module-level object that a producer hands out by reference.
\*   - A Store object is its class (which carries the @Restrict annotations) and
\*     its own enumerable properties; `defaultPolicy` is an ordinary own property
\*     (class field), exactly as in the source.
\*   - A string is a sequence of atoms; an atom is ":" or an identifier.  Paths
\*     and keys given as inputs never put two identifiers next to each other, so
\*     a segment of a split path is one identifier (or empty).
\*   - Keys are ordinary property names: none is the name of a member of
\*     Store.prototype or Object.prototype (read, entries, constructor,
\*     __proto__, ...), for which property access has its own behaviour.
\*   - JavaScript primitives are written as strings: "7" and "0" are the numbers
\*     7 and 0, "undefined" is undefined, every other one is that string.
EXTENDS Integers, Sequences, FiniteSets, TLC

VARIABLES heap, last, mutations

vars == <<heap, last, mutations>>

\* ---------------------------------------------------------------- bounds
\* Number of mutating calls (write, writeEntries, defaultPolicy assignment)
\* in one behaviour.
MaxMutations == 2

\* ---------------------------------------------------------------- values
Prim(p) == [t |-> "prim", p |-> p, ref |-> 0]

StoreRef(id) == [t |-> "store", p |-> "", ref |-> id]

\* A zero-argument producer; it returns the Store `id` when id # 0 and the
\* primitive p otherwise.
Producer(p, id) == [t |-> "fn", p |-> p, ref |-> id]

Undefined == Prim("undefined")

\* JSON inputs that are not primitives.
Null == [t |-> "null"]

Arr(items) == [t |-> "arr", items |-> items]

Obj(es) == [t |-> "obj", es |-> es]

\* What a call gives back when it throws.
NoValue == [t |-> "novalue"]

\* typeof value
TypeOf(v) ==
  CASE v.t = "fn" -> "function"
    [] v.t \in {"null", "arr", "obj", "store"} -> "object"
    [] v.t = "prim" /\ v.p = "undefined" -> "undefined"
    [] v.t = "prim" /\ v.p \in {"7", "0"} -> "number"
    [] OTHER -> "string"

\* ToBoolean(value), as used by `!this[pathToWrite]` and `basePath ? ... : ...`
Truthy(v) ==
  CASE v.t = "null" -> FALSE
    [] v.t = "prim" -> v.p \notin {"undefined", "0", ""}
    [] OTHER -> TRUE

\* ---------------------------------------------------------------- objects
\* this[key]: the own property, undefined when there is none.
Get(h, s, key) ==
  IF key \in DOMAIN h[s].props THEN h[s].props[key] ELSE Undefined

\* this[key] = value
Put(h, s, key, value) ==
  [h EXCEPT ![s].props =
     [k \in DOMAIN h[s].props \cup {key} |->
        IF k = key THEN value ELSE h[s].props[k]]]

\* new Store(): the class field initialiser sets defaultPolicy to "rw".
NewStore == [cls |-> "Store", props |-> [k \in {"defaultPolicy"} |-> Prim("rw")]]

\* @Restrict annotations, attached to (class, property name).
Restrict(cls) ==
  IF cls = "AdminStore"
    THEN [k \in {"user", "name", "getCredentials"} |->
            IF k = "name" THEN "none" ELSE "rw"]
    ELSE [k \in {} |-> "none"]

\* ---------------------------------------------------------------- Ability
Ability(permission) == [permission |-> permission]

canRead(a) == a.permission = Prim("r") \/ a.permission = Prim("rw")

canWrite(a) == a.permission = Prim("w") \/ a.permission = Prim("rw")

\* ---------------------------------------------------------------- Store
\* Mutant: the annotation is never looked up.
getAbilityMetadata_NoAnnotation(h, s, key) ==
  Ability(Get(h, s, "defaultPolicy"))

getAbilityMetadata(h, s, key) ==
  IF key \in DOMAIN Restrict(h[s].cls)
    THEN Ability(Prim(Restrict(h[s].cls)[key]))
    ELSE Ability(Get(h, s, "defaultPolicy"))

allowedToRead(h, s, key) == canRead(getAbilityMetadata(h, s, key))

allowedToWrite(h, s, key) == canWrite(getAbilityMetadata(h, s, key))

\* path.split(":") : the segments between the ":" atoms.
RECURSIVE SplitFrom(_, _, _)
SplitFrom(str, i, seg) ==
  IF i > Len(str) THEN <<seg>>
  ELSE IF str[i] = ":" THEN <<seg>> \o SplitFrom(str, i + 1, <<>>)
  ELSE SplitFrom(str, i + 1, Append(seg, str[i]))

SegKey(seg) == IF seg = <<>> THEN "" ELSE seg[1]

Split(str) ==
  LET segs == SplitFrom(str, 1, <<>>)
  IN [i \in 1..Len(segs) |-> SegKey(segs[i])]

\* The outcome of a call: how it ended, what it returned, the heap it left.
Ok(ret, h) == [status |-> "ok", ret |-> ret, heap |-> h]

Throw(kind, h) == [status |-> kind, ret |-> NoValue, heap |-> h]

\* A producer called with no arguments.
Call(fn) == IF fn.ref # 0 THEN StoreRef(fn.ref) ELSE Prim(fn.p)

RECURSIVE deepReading(_, _, _)
\* Mutant: the permission is checked on the first segment of a path only.
deepReading_FirstOnly(h, s, path) ==
  LET raw == Get(h, s, path[1])
      itemToRead == IF TypeOf(raw) = "function" THEN Call(raw) ELSE raw
  IN IF s = 1 /\ ~allowedToRead(h, s, path[1]) THEN Throw("AccessDenied", h)
     ELSE IF itemToRead.t = "store" /\ Len(path) > 1
       THEN deepReading(h, itemToRead.ref, Tail(path))
       ELSE Ok(itemToRead, h)

\* Mutant: every segment is checked against the permissions of the root.
deepReading_RootPermissions(h, s, path) ==
  IF ~allowedToRead(h, 1, path[1]) THEN Throw("AccessDenied", h)
  ELSE LET raw == Get(h, s, path[1])
           itemToRead == IF TypeOf(raw) = "function" THEN Call(raw) ELSE raw
       IN IF itemToRead.t = "store" /\ Len(path) > 1
            THEN deepReading(h, itemToRead.ref, Tail(path))
            ELSE Ok(itemToRead, h)

\* Mutant: segments left over at a value that is not a Store are an error.
deepReading_StrictPath(h, s, path) ==
  IF ~allowedToRead(h, s, path[1]) THEN Throw("AccessDenied", h)
  ELSE LET raw == Get(h, s, path[1])
           itemToRead == IF TypeOf(raw) = "function" THEN Call(raw) ELSE raw
       IN IF itemToRead.t = "store" /\ Len(path) > 1
            THEN deepReading(h, itemToRead.ref, Tail(path))
            ELSE IF Len(path) > 1 THEN Throw("TypeError", h)
            ELSE Ok(itemToRead, h)

\* Mutant: what a producer returns is kept as the entry.
deepReading_KeepResult(h, s, path) ==
  IF ~allowedToRead(h, s, path[1]) THEN Throw("AccessDenied", h)
  ELSE LET raw == Get(h, s, path[1])
           itemToRead == IF TypeOf(raw) = "function" THEN Call(raw) ELSE raw
           h1 == IF TypeOf(raw) = "function" THEN Put(h, s, path[1], itemToRead) ELSE h
       IN IF itemToRead.t = "store" /\ Len(path) > 1
            THEN deepReading(h1, itemToRead.ref, Tail(path))
            ELSE Ok(itemToRead, h1)

\* Mutant: the descent stops one segment early (path.length > 2).
deepReading_OffByOne(h, s, path) ==
  IF ~allowedToRead(h, s, path[1]) THEN Throw("AccessDenied", h)
  ELSE LET raw == Get(h, s, path[1])
           itemToRead == IF TypeOf(raw) = "function" THEN Call(raw) ELSE raw
       IN IF itemToRead.t = "store" /\ Len(path) > 2
            THEN deepReading(h, itemToRead.ref, Tail(path))
            ELSE Ok(itemToRead, h)

deepReading(h, s, path) ==
  IF ~allowedToRead(h, s, path[1]) THEN Throw("AccessDenied", h)
  ELSE LET raw == Get(h, s, path[1])
           itemToRead == IF TypeOf(raw) = "function" THEN Call(raw) ELSE raw
       IN IF itemToRead.t = "store" /\ Len(path) > 1
            THEN deepReading(h, itemToRead.ref, Tail(path))
            ELSE Ok(itemToRead, h)

read(h, s, path) == deepReading(h, s, Split(path))

\* new Store() assigned to this[key]: the new object is appended to the heap.
PutNewStore(h, s, key) == Append(Put(h, s, key, StoreRef(Len(h) + 1)), NewStore)

RECURSIVE deepWriting(_, _, _, _)
\* Mutant: the entry is created or assigned before the permission is checked.
deepWriting_CheckLate(h, s, path, value) ==
  LET pathToWrite == path[1]
      h1 == IF ~Truthy(Get(h, s, pathToWrite)) /\ Len(path) > 1
              THEN PutNewStore(h, s, pathToWrite)
              ELSE IF Len(path) = 1 THEN Put(h, s, pathToWrite, value) ELSE h
      next == Get(h1, s, pathToWrite)
  IN IF ~allowedToWrite(h, s, pathToWrite) THEN Throw("AccessDenied", h1)
     ELSE IF Len(path) > 1
       THEN IF next.t = "store"
              THEN deepWriting(h1, next.ref, Tail(path), value)
              ELSE Throw("TypeError", h1)
       ELSE Ok(next, h1)

\* Mutant: each level returns its own entry, not the result of the level below.
deepWriting_ReturnOwnEntry(h, s, path, value) ==
  LET pathToWrite == path[1]
      h1 == IF ~Truthy(Get(h, s, pathToWrite)) /\ Len(path) > 1
              THEN PutNewStore(h, s, pathToWrite)
              ELSE IF Len(path) = 1 THEN Put(h, s, pathToWrite, value) ELSE h
      next == Get(h1, s, pathToWrite)
  IN IF ~allowedToWrite(h, s, pathToWrite) THEN Throw("AccessDenied", h)
     ELSE IF Len(path) > 1
       THEN IF next.t = "store"
              THEN LET below == deepWriting(h1, next.ref, Tail(path), value)
                   IN IF below.status = "ok" THEN Ok(next, below.heap) ELSE below
              ELSE Throw("TypeError", h1)
       ELSE Ok(next, h1)

\* Mutant: the value is also assigned under the last segment's name in every
\* store on the way.
deepWriting_AlsoOnTheWay(h, s, path, value) ==
  LET pathToWrite == path[1]
      h0 == IF Len(path) > 1 /\ path[Len(path)] # pathToWrite
              THEN Put(h, s, path[Len(path)], value) ELSE h
      h1 == IF ~Truthy(Get(h0, s, pathToWrite)) /\ Len(path) > 1
              THEN PutNewStore(h0, s, pathToWrite)
              ELSE IF Len(path) = 1 THEN Put(h0, s, pathToWrite, value) ELSE h0
      next == Get(h1, s, pathToWrite)
  IN IF ~allowedToWrite(h, s, pathToWrite) THEN Throw("AccessDenied", h)
     ELSE IF Len(path) > 1
       THEN IF next.t = "store"
              THEN deepWriting(h1, next.ref, Tail(path), value)
              ELSE Throw("TypeError", h)
       ELSE Ok(next, h1)

\* Mutant: a producer on the way is called and the write goes on in the
\* Store it returns.
deepWriting_CallProducer(h, s, path, value) ==
  LET pathToWrite == path[1]
      h1 == IF ~Truthy(Get(h, s, pathToWrite)) /\ Len(path) > 1
              THEN PutNewStore(h, s, pathToWrite)
              ELSE IF Len(path) = 1 THEN Put(h, s, pathToWrite, value) ELSE h
      raw == Get(h1, s, pathToWrite)
      next == IF TypeOf(raw) = "function" /\ Len(path) > 1 THEN Call(raw) ELSE raw
  IN IF ~allowedToWrite(h, s, pathToWrite) THEN Throw("AccessDenied", h)
     ELSE IF Len(path) > 1
       THEN IF next.t = "store"
              THEN deepWriting(h1, next.ref, Tail(path), value)
              ELSE Throw("TypeError", h1)
       ELSE Ok(next, h1)

\* Mutant: a key that holds a Store is not overwritten by a terminal write.
deepWriting_KeepStore(h, s, path, value) ==
  LET pathToWrite == path[1]
      h1 == IF ~Truthy(Get(h, s, pathToWrite)) /\ Len(path) > 1
              THEN PutNewStore(h, s, pathToWrite)
              ELSE IF Len(path) = 1 /\ Get(h, s, pathToWrite).t # "store"
                THEN Put(h, s, pathToWrite, value) ELSE h
      next == Get(h1, s, pathToWrite)
  IN IF ~allowedToWrite(h, s, pathToWrite) THEN Throw("AccessDenied", h)
     ELSE IF Len(path) > 1
       THEN IF next.t = "store"
              THEN deepWriting(h1, next.ref, Tail(path), value)
              ELSE Throw("TypeError", h1)
       ELSE Ok(next, h1)

deepWriting(h, s, path, value) ==
  LET pathToWrite == path[1]
      h1 == IF ~Truthy(Get(h, s, pathToWrite)) /\ Len(path) > 1
              THEN PutNewStore(h, s, pathToWrite)
              ELSE IF Len(path) = 1 THEN Put(h, s, pathToWrite, value) ELSE h
      next == Get(h1, s, pathToWrite)
  IN IF ~allowedToWrite(h, s, pathToWrite) THEN Throw("AccessDenied", h)
     ELSE IF Len(path) > 1
       THEN IF next.t = "store"
              THEN deepWriting(h1, next.ref, Tail(path), value)
              \* this[pathToWrite].deepWriting is not a function
              ELSE Throw("TypeError", h1)
       ELSE Ok(next, h1)

\* The basePath of writeEntries.
NullPath == <<"<null>">>

\* `basePath ? ... : ...` : null and the empty string are falsy.
PathTruthy(basePath) == basePath # NullPath /\ basePath # <<>>

\* Array indices as property names.
IndexName == <<"0", "1", "2">>

\* Object.entries(value), in enumeration order.
ObjectEntries(value) ==
  IF value.t = "arr"
    THEN [i \in 1..Len(value.items) |-> <<IndexName[i], value.items[i]>>]
    ELSE value.es

\* The flattening; ok is FALSE when Object.entries(null) throws on the way.
RECURSIVE deepCreatingPathFromJSONObject(_, _), FlatMapEntries(_, _, _)
deepCreatingPathFromJSONObject(basePath, value) ==
  IF value.t = "null" THEN [ok |-> FALSE, pairs |-> <<>>]
  ELSE FlatMapEntries(basePath, ObjectEntries(value), 1)

FlatMapEntries(basePath, entries, i) ==
  IF i > Len(entries) THEN [ok |-> TRUE, pairs |-> <<>>]
  ELSE LET entry == entries[i]
           childBasePath ==
             (IF PathTruthy(basePath) THEN basePath \o <<":">> ELSE <<>>)
               \o <<entry[1]>>
           mapped ==
             IF TypeOf(entry[2]) # "object"
               THEN [ok |-> TRUE,
                     pairs |-> <<[path |-> childBasePath, value |-> entry[2]]>>]
               ELSE deepCreatingPathFromJSONObject(childBasePath, entry[2])
           rest == FlatMapEntries(basePath, entries, i + 1)
       IN [ok |-> mapped.ok /\ rest.ok, pairs |-> mapped.pairs \o rest.pairs]

RECURSIVE write(_, _, _, _), WriteEach(_, _, _, _)
\* Mutant: a batch that fails is rolled back.
WriteEach_RollBack(h, s, pairs, i) ==
  IF i > Len(pairs) THEN Ok(Undefined, h)
  ELSE LET one == write(h, s, pairs[i].path, pairs[i].value)
           rest == WriteEach(one.heap, s, pairs, i + 1)
       IN IF one.status # "ok" THEN one
          ELSE IF rest.status # "ok" THEN Throw(rest.status, h) ELSE rest

write(h, s, path, value) ==
  IF TypeOf(value) = "object"
    THEN LET paths == deepCreatingPathFromJSONObject(path, value)
         IN IF ~paths.ok THEN Throw("TypeError", h)
            ELSE LET done == WriteEach(h, s, paths.pairs, 1)
                 IN IF done.status = "ok" THEN Ok(value, done.heap) ELSE done
    ELSE deepWriting(h, s, Split(path), value)

\* paths.map((path) => this.write(path.path, path.value)): in order, the
\* first call that throws ends the loop.
WriteEach(h, s, pairs, i) ==
  IF i > Len(pairs) THEN Ok(Undefined, h)
  ELSE LET one == write(h, s, pairs[i].path, pairs[i].value)
       IN IF one.status # "ok" THEN one
          ELSE WriteEach(one.heap, s, pairs, i + 1)

writeEntries(h, s, entries) ==
  LET paths == deepCreatingPathFromJSONObject(NullPath, entries)
  IN IF ~paths.ok THEN Throw("TypeError", h)
     ELSE WriteEach(h, s, paths.pairs, 1)

\* The snapshot: an object is given as [t |-> "obj", m |-> key -> value].
RECURSIVE entries(_, _)
\* Mutant: entries() calls a producer and reports what it returns.
entries_CallProducers(h, s) ==
  [t |-> "obj",
   m |-> [key \in {k \in DOMAIN h[s].props : allowedToRead(h, s, k)} |->
            LET raw == h[s].props[key]
                value == IF TypeOf(raw) = "function" THEN Call(raw) ELSE raw
            IN IF value.t = "store" THEN entries(h, value.ref) ELSE value]]

\* Mutant: a nested Store is reported with all of its keys.
entries_NestedUnfiltered(h, s) ==
  [t |-> "obj",
   m |-> [key \in {k \in DOMAIN h[s].props : s # 1 \/ allowedToRead(h, s, k)} |->
            LET value == h[s].props[key]
            IN IF value.t = "store" THEN entries(h, value.ref) ELSE value]]

entries(h, s) ==
  [t |-> "obj",
   m |-> [key \in {k \in DOMAIN h[s].props : allowedToRead(h, s, k)} |->
            LET value == h[s].props[key]
            IN IF value.t = "store" THEN entries(h, value.ref) ELSE value]]

\* ---------------------------------------------------------------- inputs
P1(a) == <<a>>

P2(a, b) == <<a, ":", b>>

P3(a, b, c) == <<a, ":", b, ":", c>>

Paths ==
  { P1("a"), P1("defaultPolicy"), P1("name"),
    P2("a", "b"), P2("user", "a"), P2("getCredentials", "username"),
    P3("a", "b", "a") }

\* The paths that are read: those written, and the AdminStore's "user".
ReadPaths == Paths \cup {P1("user")}

\* {b: 7, a: {b: 7}}
ObjMix ==
  Obj(<< <<"b", Prim("7")>>, <<"a", Obj(<< <<"b", Prim("7")>> >>)>> >>)

\* {defaultPolicy: "none", b: 7}
ObjDeny == Obj(<< <<"defaultPolicy", Prim("none")>>, <<"b", Prim("7")>> >>)

\* {b: 7, a: null}
ObjNull == Obj(<< <<"b", Prim("7")>>, <<"a", Null>> >>)

Plain == {Prim("7"), Prim("0"), Prim("none"), Producer("7", 0)}

Structured == {ObjMix, ObjDeny, ObjNull, Arr(<<Prim("7")>>), Null}

Values == Plain \cup Structured

\* The paths that structured values are written at.
ObjectPaths == {P1("a"), P2("user", "a")}

\* The (path, value) arguments of write.
WriteArgs ==
  (Paths \X Plain) \cup (ObjectPaths \X Structured)
    \cup {<<P1("defaultPolicy"), Prim("rw")>>}

Permissions == {"r", "w", "rw", "none"}

\* ---------------------------------------------------------------- states
Root == 1

\* A program that starts from `new Store()`.
FreshHeap == <<NewStore>>

\* A program that starts from `new AdminStore(user)`: the AdminStore, the
\* injected store (its class is outside the sources; a plain Store stands for
\* it), and the module's credentialStore after writeEntries({username: "user1"}).
AdminHeap ==
  << [cls |-> "AdminStore",
      props |-> [k \in {"defaultPolicy", "user", "name", "getCredentials"} |->
                   CASE k = "defaultPolicy" -> Prim("none")
                     [] k = "user" -> StoreRef(2)
                     [] k = "name" -> Prim("John Doe")
                     [] k = "getCredentials" -> Producer("", 3)]],
     NewStore,
     writeEntries(<<NewStore>>, 1, Obj(<< <<"username", Prim("user1")>> >>)).heap[1] >>

Call0 == [op |-> "new", path |-> <<>>, val |-> Undefined, status |-> "ok",
          ret |-> Undefined, created |-> 0]

Init ==
  /\ heap \in {FreshHeap, AdminHeap}
  /\ last = Call0
  /\ mutations = 0

Returned(op, path, val, out) ==
  [op |-> op, path |-> path, val |-> val, status |-> out.status,
   ret |-> out.ret, created |-> Len(out.heap) - Len(heap)]

Read(path) ==
  LET out == read(heap, Root, path)
  IN /\ heap' = out.heap
     /\ last' = Returned("read", path, Undefined, out)
     /\ UNCHANGED mutations

Write(path, value) ==
  LET out == write(heap, Root, path, value)
  IN /\ mutations < MaxMutations
     /\ heap' = out.heap
     /\ last' = Returned("write", path, value, out)
     /\ mutations' = mutations + 1

WriteEntries(value) ==
  LET out == writeEntries(heap, Root, value)
  IN /\ mutations < MaxMutations
     /\ heap' = out.heap
     /\ last' = Returned("writeEntries", NullPath, value, out)
     /\ mutations' = mutations + 1

Entries ==
  /\ last' = Returned("entries", <<>>, Undefined, Ok(entries(heap, Root), heap))
  /\ UNCHANGED <<heap, mutations>>

\* store.defaultPolicy = permission, the public field assigned directly.
SetDefaultPolicy(permission) ==
  LET h1 == Put(heap, Root, "defaultPolicy", Prim(permission))
  IN /\ mutations < MaxMutations
     /\ heap' = h1
     /\ last' = Returned("defaultPolicy", <<>>, Prim(permission), Ok(Undefined, h1))
     /\ mutations' = mutations + 1

Next ==
  \/ \E path \in ReadPaths : Read(path)
  \/ \E args \in WriteArgs : Write(args[1], args[2])
  \/ \E value \in Structured \ {Null} : WriteEntries(value)
  \/ Entries
  \/ \E permission \in Permissions : SetDefaultPolicy(permission)

Spec == Init /\ [][Next]_vars

\* ================================================================ claims
Stores == 1..Len(heap)

KeyUniverse ==
  {"a", "b", "0", "defaultPolicy", "user", "name", "getCredentials", "username"}

Annotated(h, s, key) == key \in DOMAIN Restrict(h[s].cls)

\* The effective permission of a key: its annotation, else the defaultPolicy
\* the instance holds now.
EffectivePermission(h, s, key) ==
  IF Annotated(h, s, key) THEN Prim(Restrict(h[s].cls)[key])
  ELSE h[s].props["defaultPolicy"]

PermitsRead(h, s, key) == EffectivePermission(h, s, key) \in {Prim("r"), Prim("rw")}

PermitsWrite(h, s, key) == EffectivePermission(h, s, key) \in {Prim("w"), Prim("rw")}

\* C1: allowedToRead(key) holds exactly when the key's effective permission is
\* r or rw and allowedToWrite(key) exactly when it is w or rw, in every store;
\* and after an assignment to defaultPolicy the answers of every unannotated
\* key are those of the new policy, the answers of every annotated key those of
\* its annotation.
C1_AnswersFollowEffectivePermission ==
  /\ \A s \in Stores, key \in KeyUniverse :
       /\ allowedToRead(heap, s, key) <=> PermitsRead(heap, s, key)
       /\ allowedToWrite(heap, s, key) <=> PermitsWrite(heap, s, key)
  /\ last.op = "defaultPolicy" =>
       \A key \in KeyUniverse :
         LET permission == IF Annotated(heap, Root, key)
                             THEN Restrict(heap[Root].cls)[key] ELSE last.val.p
         IN /\ allowedToRead(heap, Root, key) <=> permission \in {"r", "rw"}
            /\ allowedToWrite(heap, Root, key) <=> permission \in {"w", "rw"}

\* An AdminStore whose defaultPolicy was just set to "rw": the unannotated key
\* "a" became readable and the key "name", annotated none, did not.
C1_Witness ==
  /\ last.op = "defaultPolicy" /\ last.val = Prim("rw")
  /\ heap[Root].cls = "AdminStore"
  /\ allowedToRead(heap, Root, "a") /\ allowedToWrite(heap, Root, "a")
  /\ ~allowedToRead(heap, Root, "name") /\ ~allowedToWrite(heap, Root, "name")

\* The (store, key) levels a read of `path` resolves when no permission stops
\* it: producers are called, nested Stores are entered while segments remain.
RECURSIVE ReadLevels(_, _, _)
ReadLevels(h, s, path) ==
  LET raw == Get(h, s, path[1])
      item == IF raw.t = "fn" THEN Call(raw) ELSE raw
  IN <<[store |-> s, key |-> path[1]]>> \o
       (IF item.t = "store" /\ Len(path) > 1
          THEN ReadLevels(h, item.ref, Tail(path)) ELSE <<>>)

SomeLevelUnreadable(h, s, path) ==
  LET levels == ReadLevels(h, s, path)
  IN \E i \in 1..Len(levels) : ~PermitsRead(h, levels[i].store, levels[i].key)

\* C2: a read that traverses a segment whose key lacks read permission in the
\* store where the segment is resolved fails with AccessDenied and returns no
\* value.
C2_ReadDeniedWithoutPermission ==
  (last.op = "read" /\ SomeLevelUnreadable(heap, Root, Split(last.path)))
    => (last.status = "AccessDenied" /\ last.ret = NoValue)

\* A two-segment read denied inside the nested store, the first segment being
\* readable in the root.
C2_Witness ==
  /\ last.op = "read" /\ Len(Split(last.path)) = 2
  /\ last.status = "AccessDenied"
  /\ PermitsRead(heap, Root, Split(last.path)[1])
  /\ Get(heap, Root, Split(last.path)[1]).t = "store"

\* The (store, key) levels a deep write of `path` resolves in existing stores:
\* it goes on below a key only when that key holds a Store.
RECURSIVE WriteLevels(_, _, _)
WriteLevels(h, s, path) ==
  <<[store |-> s, key |-> path[1]]>> \o
    (IF Len(path) > 1 /\ Get(h, s, path[1]).t = "store"
       THEN WriteLevels(h, Get(h, s, path[1]).ref, Tail(path)) ELSE <<>>)

SomeLevelUnwritable(h, s, path) ==
  LET levels == WriteLevels(h, s, path)
  IN \E i \in 1..Len(levels) : ~PermitsWrite(h, levels[i].store, levels[i].key)

\* C3: a write of a non-structured value fails with AccessDenied when the
\* terminal or an intermediate segment lacks write permission at its level,
\* and a write that fails leaves every store as it was and creates none.
C3_DeniedWriteChangesNothing ==
  [][ (last'.op = "write" /\ TypeOf(last'.val) # "object") =>
        /\ SomeLevelUnwritable(heap, Root, Split(last'.path))
             => last'.status = "AccessDenied"
        /\ last'.status # "ok" => heap' = heap
    ]_vars

\* A multi-segment write denied below the first segment, which is writable.
C3_Witness ==
  /\ last.op = "write" /\ TypeOf(last.val) # "object"
  /\ Len(Split(last.path)) > 1
  /\ last.status = "AccessDenied"
  /\ PermitsWrite(heap, Root, Split(last.path)[1])

\* C4: after a successful write of a primitive, and for every pair of a
\* successful writeEntries, read of the path returns the value when every
\* segment is readable at its level.
C4_ReadReturnsWritten ==
  /\ (last.op = "write" /\ last.status = "ok" /\ last.val.t = "prim"
        /\ ~SomeLevelUnreadable(heap, Root, Split(last.path)))
       => read(heap, Root, last.path) = Ok(last.val, heap)
  /\ (last.op = "writeEntries" /\ last.status = "ok") =>
       LET pairs == deepCreatingPathFromJSONObject(NullPath, last.val).pairs
       IN \A i \in 1..Len(pairs) :
            (pairs[i].value.t = "prim"
               /\ ~SomeLevelUnreadable(heap, Root, Split(pairs[i].path)))
              => read(heap, Root, pairs[i].path) = Ok(pairs[i].value, heap)

\* write("a:b:a", 7) on a store without "a": two stores were created, and the
\* read of "a:b:a" returns 7.
C4_Witness ==
  /\ last.op = "write" /\ last.status = "ok" /\ last.val = Prim("7")
  /\ last.path = P3("a", "b", "a") /\ last.created = 2
  /\ read(heap, Root, last.path).ret = Prim("7")

\* A structured input as the plain structure it denotes, in the form of a
\* snapshot: an object is [t |-> "obj", m |-> key -> value].
RECURSIVE JsonOf(_)
JsonOf(value) ==
  CASE value.t = "obj" ->
         [t |-> "obj",
          m |-> [key \in {value.es[i][1] : i \in 1..Len(value.es)} |->
                   LET i == CHOOSE j \in 1..Len(value.es) : value.es[j][1] = key
                   IN JsonOf(value.es[i][2])]]
    [] value.t = "arr" ->
         [t |-> "arr",
          items |-> [i \in 1..Len(value.items) |-> JsonOf(value.items[i])]]
    [] OTHER -> value

\* C5: writeEntries(X) as the first call on a new Store succeeds, and
\* entries() is then deep-equal to X.
C5_RoundTrip ==
  (last.op = "writeEntries" /\ mutations = 1 /\ heap[Root].cls = "Store")
    => (last.status = "ok" /\ entries(heap, Root) = JsonOf(last.val))

\* Whether `snap` is the readable keys of store s and nothing else, a nested
\* Store given as its own readable keys, any other value as stored.
RECURSIVE ExactlyReadable(_, _, _)
ExactlyReadable(h, s, snap) ==
  /\ snap.t = "obj"
  /\ DOMAIN snap.m = {key \in DOMAIN h[s].props : PermitsRead(h, s, key)}
  /\ \A key \in DOMAIN snap.m :
       LET value == h[s].props[key]
       IN IF value.t = "store"
            THEN ExactlyReadable(h, value.ref, snap.m[key])
            ELSE snap.m[key] = value

\* C6: entries() holds a key exactly when the store has it and may read it; a
\* key holding a nested Store is given as that store's entries(), every other
\* key with its stored value.
C6_EntriesAreTheReadableKeys ==
  last.op = "entries" => ExactlyReadable(heap, Root, last.ret)

\* entries() of a store whose key "a" holds a nested Store that has keys it
\* may not read: "a" is reported, without those keys.
C6_Witness ==
  /\ last.op = "entries"
  /\ "a" \in DOMAIN last.ret.m
  /\ Get(heap, Root, "a").t = "store"
  /\ DOMAIN last.ret.m["a"].m # DOMAIN heap[Get(heap, Root, "a").ref].props
  /\ DOMAIN last.ret.m # DOMAIN heap[Root].props

\* path:key, the path being the store itself for writeEntries.
JoinPath(basePath, key) ==
  IF basePath = NullPath THEN <<key>> ELSE basePath \o <<":", key>>

\* The leaves of a structured object with their full paths, in order: a leaf
\* is any value that is not itself a structured object.
RECURSIVE LeafPairs(_, _, _)
LeafPairs(basePath, obj, i) ==
  IF i > Len(obj.es) THEN <<>>
  ELSE LET child == JoinPath(basePath, obj.es[i][1])
           value == obj.es[i][2]
       IN (IF value.t = "obj" THEN LeafPairs(child, value, 1)
           ELSE <<[path |-> child, value |-> value]>>)
            \o LeafPairs(basePath, obj, i + 1)

\* C7: a write or writeEntries of a structured object leaves the stores as one
\* individual write per leaf, in order, leaves them; write returns the object.
C7_BatchEqualsIndividualWrites ==
  [][ (last'.op \in {"write", "writeEntries"} /\ last'.val.t = "obj") =>
        /\ heap' = WriteEach(heap, Root, LeafPairs(last'.path, last'.val, 1), 1).heap
        /\ (last'.op = "write" /\ last'.status = "ok") => last'.ret = last'.val
    ]_vars

\* The entry at the end of a path, whatever the permissions; undefined when
\* the path does not lead through Stores.
RECURSIVE RawLookup(_, _, _)
RawLookup(h, s, path) ==
  LET value == Get(h, s, path[1])
  IN IF Len(path) = 1 THEN value
     ELSE IF value.t = "store" THEN RawLookup(h, value.ref, Tail(path))
     ELSE Undefined

Written(h, pair) == RawLookup(h, Root, Split(pair.path)) = pair.value

Untouched(h, g, pair) ==
  RawLookup(g, Root, Split(pair.path)) = RawLookup(h, Root, Split(pair.path))

\* C8: when a structured write or writeEntries ends with AccessDenied, one
\* flattened pair is the one refused, every pair before it is in the stores
\* and the entry of every pair from it on is as it was before the call.
C8_FailedBatchKeepsEarlierPairs ==
  [][ (last'.op \in {"write", "writeEntries"} /\ TypeOf(last'.val) = "object"
         /\ last'.status = "AccessDenied") =>
        LET pairs == deepCreatingPathFromJSONObject(last'.path, last'.val).pairs
        IN \E i \in 1..Len(pairs) :
             /\ deepWriting(heap', Root, Split(pairs[i].path), pairs[i].value).status
                  = "AccessDenied"
             /\ \A j \in 1..(i - 1) : Written(heap', pairs[j])
             /\ \A j \in i..Len(pairs) : Untouched(heap, heap', pairs[j])
    ]_vars

\* A batch refused at its second pair: the first pair is in the stores, and
\* it was not there before the call (a new Store holds no such entry).
C8_Witness ==
  /\ last.op \in {"write", "writeEntries"} /\ last.val = ObjDeny
  /\ last.status = "AccessDenied"
  /\ LET pairs == deepCreatingPathFromJSONObject(last.path, last.val).pairs
     IN /\ Written(heap, pairs[1])
        /\ ~Written(heap, pairs[2])
        /\ deepWriting(heap, Root, Split(pairs[2].path), pairs[2].value).status
             = "AccessDenied"

\* C9: a successful write of an array creates no Store and leaves the array
\* itself as the entry at the path.
C9_ArrayStoredAsOneValue ==
  (last.op = "write" /\ last.val.t = "arr" /\ last.status = "ok")
    => (last.created = 0 /\ RawLookup(heap, Root, Split(last.path)) = last.val)

\* C10: a one-segment write of a non-structured value to a key whose effective
\* permission is rw, and a one-segment read of such a key, do not throw.
C10_ReadWriteKeyNeverThrows ==
  [][ (/\ last'.op \in {"read", "write"}
       /\ last'.val.t # "obj"
       /\ Len(Split(last'.path)) = 1
       /\ EffectivePermission(heap, Root, Split(last'.path)[1]) = Prim("rw"))
        => last'.status = "ok"
    ]_vars

\* C11: a read succeeds exactly when every level it resolves is readable by
\* the store that resolves it (its own annotations, else its own
\* defaultPolicy), whether that store is held by its parent or returned by a
\* producer; on a new AdminStore read("user") returns the injected store,
\* read("name") is denied and read("getCredentials:username") returns "user1".
C11_NestedStoreDecidesItsOwnKeys ==
  last.op = "read" =>
    /\ last.status = "ok" <=> ~SomeLevelUnreadable(heap, Root, Split(last.path))
    /\ last.status \in {"ok", "AccessDenied"}
    /\ heap = AdminHeap =>
         /\ last.path = P1("user") => (last.status = "ok" /\ last.ret = StoreRef(2))
         /\ last.path = P1("name") => last.status = "AccessDenied"
         /\ last.path = P2("getCredentials", "username")
              => (last.status = "ok" /\ last.ret = Prim("user1"))

\* read("getCredentials:username") on a new AdminStore returned "user1",
\* though the AdminStore itself may not read a key named "username".
C11_Witness ==
  /\ heap = AdminHeap
  /\ last.op = "read" /\ last.path = P2("getCredentials", "username")
  /\ last.ret = Prim("user1")
  /\ ~allowedToRead(heap, Root, "username")
  /\ allowedToRead(heap, 3, "username")

\* C12: a multi-segment write never replaces an entry that exists at its first
\* segment, whatever the value of that entry, and when the key holds no entry
\* a successful write leaves a new plain Store (defaultPolicy "rw") there.
C12_VivifyOnlyMissingEntries ==
  [][ (last'.op = "write" /\ TypeOf(last'.val) # "object"
         /\ Len(Split(last'.path)) > 1) =>
        LET key == Split(last'.path)[1]
        IN IF key \in DOMAIN heap[Root].props
             THEN heap'[Root].props[key] = heap[Root].props[key]
             ELSE last'.status = "ok" =>
                    /\ Get(heap', Root, key).t = "store"
                    /\ Get(heap', Root, key).ref > Len(heap)
                    /\ heap'[Get(heap', Root, key).ref].cls = "Store"
                    /\ Get(heap', Get(heap', Root, key).ref, "defaultPolicy") = Prim("rw")
    ]_vars

\* The stores no entry refers to.
Orphans(h) ==
  {s \in 2..Len(h) :
     \A o \in 1..Len(h) :
       \A key \in DOMAIN h[o].props : h[o].props[key].ref # s}

\* C13: after a successful write of a primitive or a producer the entry at the
\* end of the path is that value, whatever the key held before; after a
\* one-segment write the key holds no Store, and a read of the key, and of any
\* path that goes on below it, returns the written primitive when the key is
\* readable.
C13_TerminalWriteOverwrites ==
  (last.op = "write" /\ last.status = "ok" /\ TypeOf(last.val) # "object") =>
    /\ RawLookup(heap, Root, Split(last.path)) = last.val
    /\ (Len(Split(last.path)) = 1 /\ last.val.t = "prim") =>
         LET key == Split(last.path)[1]
         IN /\ Get(heap, Root, key) = last.val
            /\ PermitsRead(heap, Root, key) =>
                 \A path \in ReadPaths :
                   Split(path)[1] = key => read(heap, Root, path) = Ok(last.val, heap)

\* write("a", primitive) on a new Store whose key "a" held the Store an earlier
\* write created: "a" now holds the primitive and that Store is referred to by
\* no entry.
C13_Witness ==
  /\ last.op = "write" /\ last.status = "ok" /\ last.path = P1("a")
  /\ last.val.t = "prim"
  /\ heap[Root].cls = "Store" /\ mutations = 2
  /\ Get(heap, Root, "a") = last.val
  /\ Orphans(heap) = {2}
  /\ \A key \in DOMAIN heap[Root].props : heap[Root].props[key].t # "store"

\* The value a level resolves to: the entry, or what the producer it holds
\* returns.
Resolved(h, level) ==
  LET raw == Get(h, level.store, level.key)
  IN IF raw.t = "fn" THEN Call(raw) ELSE raw

\* C14: when a read resolves, at a level it may read, a value that is not a
\* Store while segments remain, it returns that value without error: the
\* levels it resolves end there, whatever the remaining segments are.
C14_ReadStopsAtFirstNonStore ==
  last.op = "read" =>
    LET levels == ReadLevels(heap, Root, Split(last.path))
        final == levels[Len(levels)]
    IN (/\ Len(levels) < Len(Split(last.path))
        /\ ~SomeLevelUnreadable(heap, Root, Split(last.path)))
         => /\ Resolved(heap, final).t # "store"
            /\ last.status = "ok"
            /\ last.ret = Resolved(heap, final)

\* A read of three segments whose first, a readable key of the root, holds a
\* primitive: it returned the primitive and two segments were left over.
C14_Witness ==
  /\ last.op = "read" /\ Len(Split(last.path)) = 3
  /\ Split(last.path)[1] \in DOMAIN heap[Root].props
  /\ Get(heap, Root, Split(last.path)[1]).t = "prim"
  /\ Len(ReadLevels(heap, Root, Split(last.path))) = 1
  /\ last.status = "ok"
  /\ last.ret = Get(heap, Root, Split(last.path)[1])

\* C15 as stated: a successful write of a non-structured value returns the
\* entry now held at the first segment of the path in the store the call was
\* made on (for several segments, the nested Store held there).
C15_ReturnsFirstSegmentEntry ==
  (last.op = "write" /\ last.status = "ok" /\ TypeOf(last.val) # "object")
    => last.ret = Get(heap, Root, Split(last.path)[1])

\* C15 as amended: a successful write of a non-structured value returns the
\* written value, which is the entry now held at the last segment of the path,
\* for one segment and for several alike.
C15_ReturnsWrittenValue ==
  (last.op = "write" /\ last.status = "ok" /\ TypeOf(last.val) # "object")
    => /\ last.ret = last.val
       /\ last.ret = RawLookup(heap, Root, Split(last.path))

\* A successful write of several segments: it returned the written value,
\* while the first segment holds a Store.
C15_Witness ==
  /\ last.op = "write" /\ last.status = "ok" /\ TypeOf(last.val) # "object"
  /\ Len(Split(last.path)) > 1
  /\ last.ret = last.val
  /\ Get(heap, Root, Split(last.path)[1]).t = "store"

\* C16: a read whose first segment is a readable key holding a producer uses
\* what the producer returns: it returns that value, or goes on inside it when
\* it is a Store and segments remain; entries() gives a readable key that
\* holds a producer as the producer itself.
C16_ProducersCalledByReadOnly ==
  /\ (last.op = "read" /\ Get(heap, Root, Split(last.path)[1]).t = "fn"
        /\ PermitsRead(heap, Root, Split(last.path)[1])) =>
       LET segs == Split(last.path)
           made == Call(Get(heap, Root, segs[1]))
       IN IF made.t = "store" /\ Len(segs) > 1
            THEN /\ last.status = "ok" <=> PermitsRead(heap, made.ref, segs[2])
                 /\ (last.status = "ok" /\ Len(segs) = 2 /\ Get(heap, made.ref, segs[2]).t # "fn")
                      => last.ret = Get(heap, made.ref, segs[2])
            ELSE last.status = "ok" /\ last.ret = made
  /\ last.op = "entries" =>
       \A key \in DOMAIN heap[Root].props :
         (heap[Root].props[key].t = "fn" /\ PermitsRead(heap, Root, key))
           => (key \in DOMAIN last.ret.m /\ last.ret.m[key] = heap[Root].props[key])

\* entries() of an AdminStore: "getCredentials" is given as the producer, not
\* as the entries of the credential store it returns.
C16_Witness ==
  /\ last.op = "entries" /\ heap[Root].cls = "AdminStore"
  /\ "getCredentials" \in DOMAIN last.ret.m
  /\ last.ret.m["getCredentials"] = Producer("", 3)
  /\ read(heap, Root, P2("getCredentials", "username")).ret = Prim("user1")

\* C17: a read, write, writeEntries or entries call changes no answer of
\* allowedToRead or allowedToWrite, for any store and any key.
C17_PathCallsKeepPermissions ==
  [][ last'.op \in {"read", "write", "writeEntries", "entries"} =>
        \A s \in 1..Len(heap), key \in KeyUniverse :
          /\ allowedToRead(heap', s, key) <=> allowedToRead(heap, s, key)
          /\ allowedToWrite(heap', s, key) <=> allowedToWrite(heap, s, key)
    ]_vars

\* Whether (s, key) is one of the levels.
OnPath(levels, s, key) ==
  \E i \in 1..Len(levels) : levels[i].store = s /\ levels[i].key = key

\* C18: a successful write of a non-structured value leaves, in every store
\* that existed before it, every entry that is not a segment of the path
\* resolved in that store as it was, and adds no other entry; so a store the
\* path does not go through is unchanged.
C18_WriteChangesOnlyThePath ==
  [][ (last'.op = "write" /\ last'.status = "ok" /\ TypeOf(last'.val) # "object") =>
        LET levels == WriteLevels(heap, Root, Split(last'.path))
        IN \A s \in 1..Len(heap) :
             /\ heap'[s].cls = heap[s].cls
             /\ \A key \in DOMAIN heap[s].props \cup DOMAIN heap'[s].props :
                  ~OnPath(levels, s, key) =>
                    /\ key \in DOMAIN heap[s].props /\ key \in DOMAIN heap'[s].props
                    /\ heap'[s].props[key] = heap[s].props[key]
    ]_vars

\* A successful write("user:a", ...) on an AdminStore: the credential store,
\* which the path does not go through, is as it was at the start, and so are
\* the other entries of the AdminStore.
C18_Witness ==
  /\ last.op = "write" /\ last.status = "ok" /\ last.path = P2("user", "a")
  /\ TypeOf(last.val) # "object"
  /\ heap[Root] = AdminHeap[Root]
  /\ heap[3] = AdminHeap[3]
  /\ Get(heap, 2, "a") = last.val

\* C19: a read or entries call, whether it returns or throws, leaves every
\* store as it was and creates none.
C19_ReadAndEntriesChangeNothing ==
  [][ last'.op \in {"read", "entries"} => heap' = heap ]_vars

\* A read through the producer of an AdminStore that returned a value: the
\* heap is still the initial one, the producer still the entry.
C19_Witness ==
  /\ last.op = "read" /\ last.path = P2("getCredentials", "username")
  /\ last.status = "ok"
  /\ heap = AdminHeap

\* The write of path resolves, before its last segment, to an entry that
\* exists (is truthy) and is not a Store: a producer or a non-empty primitive.
BlockedOnTheWay(h, path) ==
  LET levels == WriteLevels(h, Root, path)
      stop == levels[Len(levels)]
      entry == Get(h, stop.store, stop.key)
  IN /\ Len(levels) < Len(path)
     /\ entry.t # "store"
     /\ Truthy(entry)

\* C20: a write of a non-structured value whose path meets, before its last
\* segment, a producer or a non-empty primitive fails with an error and
\* leaves every store as it was, the Store the producer returns included.
C20_WriteStopsAtNonStore ==
  [][ (/\ last'.op = "write" /\ TypeOf(last'.val) # "object"
       /\ BlockedOnTheWay(heap, Split(last'.path))) =>
        /\ last'.status \in {"TypeError", "AccessDenied"}
        /\ heap' = heap
    ]_vars

\* write("getCredentials:username", v) on an AdminStore: permitted at
\* getCredentials, it fails at the producer, and the credential store and
\* every other store are the initial ones.
C20_Witness ==
  /\ last.op = "write" /\ last.path = P2("getCredentials", "username")
  /\ last.status = "TypeError"
  /\ TypeOf(last.val) # "object"
  /\ heap = AdminHeap
  /\ Get(heap, Root, "getCredentials").t = "fn"

====
